---- MODULE Spec2Model ----
(***************************************************************************)
(* Hover-to-preview audio controller of the Track component               *)
(* (src/content/next-hsts-preload.mdx, "Preview on hover" and "Dealing     *)
(* with browser constraints").                                             *)
(*                                                                         *)
(* Every rendered track row is one React component with its own useState   *)
(* cells (audio, fadeIn, fadeOut); activeTrack and interactableNotified    *)
(* live in one createGlobalState store.  play and stop are the row's event *)
(* handlers; the callbacks they register (two setInterval callbacks, one   *)
(* setTimeout callback, the then/catch of newAudio.play()) are closures    *)
(* over the values of the render in which the handler ran, so each         *)
(* callback reads the captured value, not the current cell.                *)
(*                                                                         *)
(* Volumes are kept in hundredths (0..100): Number(x.toFixed(2)) rounds    *)
(* every sum to two decimals, so each volume is the double nearest to a    *)
(* multiple of 0.05.                                                       *)
(*                                                                         *)
(* Everything runs on the one event-loop thread, so each handler and each  *)
(* callback is one atomic step, and React has re-rendered between two      *)
(* steps: a handler reads the current cells.  The user may enter or leave  *)
(* any row at any moment (pointer and keyboard focus are independent), a   *)
(* play() promise may settle at any moment, and the timers fire in the     *)
(* order in which they fall due.                                           *)
(***************************************************************************)
EXTENDS Integers, Naturals, Sequences, FiniteSets, TLC

\* ---------------------------------------------------------------- bounds
\* Audio objects created in one run (new Audio(...) calls).
MaxSessions == 2

\* Audio objects created in one run of rapid hovering.
MaxRequests == 3

\* ------------------------------------------------------ program constants
\* +0.05 / -0.05 per tick, in hundredths.
Step == 5
\* "newAudio.volume < 1": the ceiling, in hundredths.
Full == 100
\* setInterval(..., 100): the period of both fade timers, in ms.
Period == 100

\* The rendered rows (track ids).
Tracks == {"a", "b"}

\* The messages a rejected play() can carry, by the branch of the catch
\* handler they select.
Messages == {"interaction", "interrupted", "other"}

VARIABLES
    preview_url,            \* per row: the track has a preview_url (a prop, never written)
    audio,                  \* per row: useState audio, 0 is null, else the Audio object
    fadeIn,                 \* per row: useState fadeIn, 0 is null, else a timer handle
    fadeOut,                \* per row: useState fadeOut, 0 is null, else a timer handle
    activeTrack,            \* global state activeTrack ('' when none)
    interactableNotified,   \* global state interactableNotified
    sess,                   \* the Audio objects created so far, with what their closures captured
    timers,                 \* the host's timer queue, in order of due time
    interactable,           \* per row: useState interactable
    last,                   \* the handler or callback that ran last, and the toast it showed
    advised                 \* an interaction-required rejection was delivered since the last success

vars == <<preview_url, audio, fadeIn, fadeOut, activeTrack, interactableNotified, sess, timers,
          interactable, last, advised>>

\* What the component owns: everything but the two history variables.
prog == <<preview_url, audio, fadeIn, fadeOut, activeTrack, interactableNotified, sess, timers,
          interactable>>

Sessions == 1..Len(sess)

\* The row's audio cell holds this object: started, stop not yet run for it.
Live(s) == audio[sess[s].track] = s

\* ------------------------------------------------------------ timer queue
\* All intervals share one period, so the interval that fired last is due
\* last: the queue is served round robin.  A timeout entry counts the whole
\* periods it still has to wait in rounds.
Interval(kind, s) == [kind |-> kind, s |-> s, rounds |-> 0]
Timeout(s, rounds) == [kind |-> "pause", s |-> s, rounds |-> rounds]

\* clearInterval(handle): the handle of a session's fade-in (fade-out)
\* interval is the session's number; clearing null or a dead handle does
\* nothing.
clearInterval(q, kind, h) ==
    LET Keep(e) == ~(e.kind = kind /\ e.s = h)
    IN  SelectSeq(q, Keep)

\* setInterval(cb, 100): first due one period from now, after every timer
\* already queued.
setInterval(q, kind, s) == Append(q, Interval(kind, s))

Rotate(q) == Append(Tail(q), Head(q))

\* (originalVolume / 0.05) * 100, truncated to whole milliseconds by
\* setTimeout.  In IEEE doubles the quotient falls just below the whole
\* number of steps for 0.15, 0.30, 0.35, 0.60, 0.70 and 0.95 (for example
\* 0.15 / 0.05 = 2.9999999999999996), so the delay is one millisecond short
\* of steps * 100 there.
RoundsBelow == {3, 6, 7, 12, 14, 19}
DelayMs(v) ==
    IF (v \div Step) \in RoundsBelow
    THEN (v \div Step) * Period - 1
    ELSE (v \div Step) * Period

\* setTimeout(cb, ms), called right after the handler's setInterval: a delay
\* of 0 is due before every queued timer; a whole number of periods is due
\* with the interval's tick of that round, after it (registered later); a
\* delay one millisecond short is due just before that tick.
setTimeout(q, s, ms) ==
    IF ms = 0
    THEN <<Timeout(s, 0)>> \o q
    ELSE IF ms % Period = 0
         THEN Append(q, Timeout(s, ms \div Period - 1))
         ELSE SubSeq(q, 1, Len(q) - 1) \o <<Timeout(s, ms \div Period)>> \o <<q[Len(q)]>>

\* ------------------------------------------------------------------ Init
\* t is the row, s the Audio object of a callback (0 for a handler).
Ran(op, t, s, toast) == [op |-> op, t |-> t, s |-> s, toast |-> toast]

Init ==
    /\ preview_url \in [Tracks -> BOOLEAN]
    /\ audio = [t \in Tracks |-> 0]
    /\ fadeIn = [t \in Tracks |-> 0]
    /\ fadeOut = [t \in Tracks |-> 0]
    /\ activeTrack = ""
    /\ interactableNotified = FALSE
    /\ sess = <<>>
    /\ timers = <<>>
    /\ interactable = [t \in Tracks |-> FALSE]
    /\ last = Ran("init", "", 0, "none")
    /\ advised = FALSE

\* ------------------------------------------------------------------ play
\* Mutants of playReturns: the guard without its preview_url test, and
\* without its audio test.
playReturnsIgnoresUrl(t) == audio[t] # 0

playReturnsIgnoresAudio(t) == ~preview_url[t]

\* Mutant of playReturns: return as well while another row holds an Audio
\* object.
playReturnsWhileBusy(t) == ~preview_url[t] \/ \E u \in Tracks : audio[u] # 0

\* "if (audio || !track.preview_url) return;"
playReturns(t) == audio[t] # 0 \/ ~preview_url[t]

\* new Audio(url) at volume 0 with its play() promise pending, and what the
\* closures created by this call capture from the current render.
newAudio(t) ==
    [track |-> t, volume |-> 0, paused |-> FALSE, promise |-> "pending",
     notified |-> interactableNotified, fadeIn |-> fadeIn[t], fadeOut |-> 0]

\* Mutant of playActiveTrack: setActiveTrack(track.id) hoisted above the
\* early return.
playActiveTrackAlways(t) == t

\* Mutant of playActiveTrack: setActiveTrack(track.id) left out.
playActiveTrackKept(t) == activeTrack

\* setActiveTrack(track.id), reached only past the early return.
playActiveTrack(t) == IF playReturns(t) THEN activeTrack ELSE t

\* onMouseOver / onFocus of row t, in a run that creates at most n Audio
\* objects.
playUpTo(t, n) ==
    /\ last' = Ran("play", t, 0, "none")
    /\ advised' = advised
    /\ activeTrack' = playActiveTrack(t)
    /\ IF playReturns(t)
       THEN UNCHANGED <<preview_url, audio, fadeIn, fadeOut, interactableNotified, sess,
                        timers, interactable>>
       ELSE /\ Len(sess) < n
            /\ sess' = Append(sess, newAudio(t))
            /\ timers' = setInterval(timers, "in", Len(sess) + 1)
            /\ fadeIn' = [fadeIn EXCEPT ![t] = Len(sess) + 1]
            /\ audio' = [audio EXCEPT ![t] = Len(sess) + 1]
            /\ UNCHANGED <<preview_url, fadeOut, interactableNotified, interactable>>

play(t) == playUpTo(t, MaxSessions)

\* ------------------------------------------------------------------ stop
\* "if (!audio) return;"
stopReturns(t) == audio[t] = 0

\* Mutant of stopTimers: the clearInterval(fadeIn) left out.
stopTimersKeepFadeIn(t) ==
    setTimeout(setInterval(timers, "out", audio[t]), audio[t], DelayMs(sess[audio[t]].volume))

\* Mutant of stopTimers: the setTimeout safety net left out.
stopTimersNoTimeout(t) ==
    LET cleared == IF fadeIn[t] # 0 THEN clearInterval(timers, "in", fadeIn[t]) ELSE timers
    IN  setInterval(cleared, "out", audio[t])

\* clearInterval(fadeIn) if set, then setInterval(fade-out), then
\* setTimeout(pause, (originalVolume / 0.05) * 100).
stopTimers(t) ==
    LET s == audio[t]
        cleared == IF fadeIn[t] # 0 THEN clearInterval(timers, "in", fadeIn[t]) ELSE timers
    IN  setTimeout(setInterval(cleared, "out", s), s, DelayMs(sess[s].volume))

\* Mutants of stopActiveTrack: setActiveTrack('') hoisted above the early
\* return, and left out.
stopActiveTrackAlways(t) == ""

stopActiveTrackKept(t) == activeTrack

\* setActiveTrack(''), reached only past the early return.
stopActiveTrack(t) == IF stopReturns(t) THEN activeTrack ELSE ""

\* onMouseLeave / onBlur of row t.
stop(t) ==
    /\ last' = Ran("stop", t, 0, "none")
    /\ advised' = advised
    /\ activeTrack' = stopActiveTrack(t)
    /\ IF stopReturns(t)
       THEN UNCHANGED <<preview_url, audio, fadeIn, fadeOut, interactableNotified, sess,
                        timers, interactable>>
       ELSE /\ audio' = [audio EXCEPT ![t] = 0]
            /\ timers' = stopTimers(t)
            /\ fadeOut' = [fadeOut EXCEPT ![t] = audio[t]]
            /\ sess' = [sess EXCEPT ![audio[t]].fadeOut = fadeOut[t]]
            /\ UNCHANGED <<preview_url, fadeIn, interactableNotified, interactable>>

\* ------------------------------------------------------------ row markup
\* The row's class is 'opacity-50': "activeTrack && activeTrack !== track.id".
dimmed(t) == activeTrack # "" /\ activeTrack # t

\* The progress bar is rendered ("Boolean(track.preview_url) &&") and has
\* class 'w-full transition-all duration-[30s]' ("audio ? ... : 'w-0'").
progress(t) == preview_url[t] /\ audio[t] # 0

\* ------------------------------------------------------- timer callbacks
\* The timer at the head of the queue is the one the host runs next.
Due(kind) == timers # <<>> /\ Head(timers).kind = kind

\* Mutant of fadeOutVolume: the "audio.volume > 0" test left out.
fadeOutVolumeNoFloor(v) == v - Step

\* Mutant of fadeInVolume: the ceiling test one step short.
fadeInVolumeShort(v) == IF v < Full - Step THEN v + Step ELSE v

\* play's interval callback for Audio object s: "fadeIn" is the value the
\* row's cell had in the render play ran in, before setFadeIn(timer).
fadeInVolume(v) == IF v < Full THEN v + Step ELSE v

fadeInClears(s) == ~(sess[s].volume < Full) /\ sess[s].fadeIn # 0

fadeInTick ==
    /\ Due("in")
    /\ LET s == Head(timers).s
       IN  /\ sess' = [sess EXCEPT ![s].volume = fadeInVolume(@)]
           /\ timers' = IF fadeInClears(s)
                        THEN clearInterval(Rotate(timers), "in", sess[s].fadeIn)
                        ELSE Rotate(timers)
           /\ last' = Ran("fadeIn", sess[s].track, s, "none")
    /\ UNCHANGED <<preview_url, audio, fadeIn, fadeOut, activeTrack, interactableNotified,
                   interactable, advised>>

\* stop's interval callback for Audio object s: "audio" and "fadeOut" are
\* the values of the render stop ran in, before setAudio(null) and
\* setFadeOut(timer).
fadeOutVolume(v) == IF v > 0 THEN v - Step ELSE v

fadeOutClears(s) == ~(sess[s].volume > 0) /\ sess[s].fadeOut # 0

fadeOutTick ==
    /\ Due("out")
    /\ LET s == Head(timers).s
       IN  /\ sess' = [sess EXCEPT ![s].volume = fadeOutVolume(@)]
           /\ timers' = IF fadeOutClears(s)
                        THEN clearInterval(Rotate(timers), "out", sess[s].fadeOut)
                        ELSE Rotate(timers)
           /\ last' = Ran("fadeOut", sess[s].track, s, "none")
    /\ UNCHANGED <<preview_url, audio, fadeIn, fadeOut, activeTrack, interactableNotified,
                   interactable, advised>>

\* stop's setTimeout callback: audio.pause().
deferredPause ==
    /\ Due("pause")
    /\ Head(timers).rounds = 0
    /\ LET s == Head(timers).s
       IN  /\ sess' = [sess EXCEPT ![s].paused = TRUE]
           /\ last' = Ran("pause", sess[s].track, s, "none")
    /\ timers' = Tail(timers)
    /\ UNCHANGED <<preview_url, audio, fadeIn, fadeOut, activeTrack, interactableNotified,
                   interactable, advised>>

\* A timeout that is not due in this round: one period passes for it.
timeoutWaits ==
    /\ Due("pause")
    /\ Head(timers).rounds > 0
    /\ timers' = Append(Tail(timers), [Head(timers) EXCEPT !.rounds = @ - 1])
    /\ last' = Ran("wait", sess[Head(timers).s].track, Head(timers).s, "none")
    /\ UNCHANGED <<preview_url, audio, fadeIn, fadeOut, activeTrack, interactableNotified,
                   sess, interactable, advised>>

\* ----------------------------------------------------- play() callbacks
\* The promise of newAudio.play() settles once.  pause() on an Audio object
\* whose promise is pending rejects it ("interrupted by a call to pause()"),
\* so that message needs the pause and nothing else settles after it.
Pending(s) == sess[s].promise = "pending"

\* What one run of a handler showed: the toast of its one toast call, none
\* when it made no call.
Shown(toasts) ==
    IF toasts = <<>> THEN "none" ELSE IF Len(toasts) = 1 THEN toasts[1] ELSE "several"

\* .then: "interactableNotified" is the value of the render play ran in.
thenAcknowledges(s) == sess[s].notified

\* The toast calls of one run of the then handler, in program order.
thenToasts(s) == IF thenAcknowledges(s) THEN <<"success">> ELSE <<>>

playThen(s) ==
    /\ Pending(s)
    /\ ~sess[s].paused
    /\ sess' = [sess EXCEPT ![s].promise = "settled"]
    /\ interactable' = [interactable EXCEPT ![sess[s].track] = TRUE]
    /\ interactableNotified' = IF thenAcknowledges(s) THEN FALSE ELSE interactableNotified
    /\ last' = Ran("then", sess[s].track, s, Shown(thenToasts(s)))
    /\ advised' = FALSE
    /\ UNCHANGED <<preview_url, audio, fadeIn, fadeOut, activeTrack, timers>>

\* .catch: the branch taken for message m, as the toast it shows.
catchAdvises(s, m) == m = "interaction" /\ ~sess[s].notified

\* Mutants of catchToasts: the two "return"s of the interaction branch left
\* out, and the test for the interrupted message left out.
catchToastsNoReturn(s, m) ==
    (IF catchAdvises(s, m) THEN <<"advisory">> ELSE <<>>)
        \o (IF m # "interrupted" THEN <<"error">> ELSE <<>>)

catchToastsNoFilter(s, m) ==
    IF m = "interaction"
    THEN IF catchAdvises(s, m) THEN <<"advisory">> ELSE <<>>
    ELSE <<"error">>

\* The toast calls of one run of the catch handler, in program order: the
\* interaction branch returns, so toast.error is reached only past it.
catchToasts(s, m) ==
    IF m = "interaction"
    THEN IF catchAdvises(s, m) THEN <<"advisory">> ELSE <<>>
    ELSE IF m # "interrupted" THEN <<"error">> ELSE <<>>

catchToast(s, m) == Shown(catchToasts(s, m))

playCatch(s, m) ==
    /\ Pending(s)
    /\ (m = "interrupted") = sess[s].paused
    /\ sess' = [sess EXCEPT ![s].promise = "settled"]
    /\ interactableNotified' = IF catchAdvises(s, m) THEN TRUE ELSE interactableNotified
    /\ last' = Ran("catch:" \o m, sess[s].track, s, catchToast(s, m))
    /\ advised' = (advised \/ m = "interaction")
    /\ UNCHANGED <<preview_url, audio, fadeIn, fadeOut, activeTrack, timers, interactable>>

\* ------------------------------------------------------------------ Next
\* The host runs the timer that is due first.
TimerFire == fadeInTick \/ fadeOutTick \/ deferredPause \/ timeoutWaits

Next ==
    \/ \E t \in Tracks : play(t)
    \/ \E t \in Tracks : stop(t)
    \/ fadeInTick
    \/ fadeOutTick
    \/ deferredPause
    \/ timeoutWaits
    \/ \E s \in Sessions : playThen(s)
    \/ \E s \in Sessions, m \in Messages : playCatch(s, m)

Spec == Init /\ [][Next]_vars

\* The handlers and the timers alone, for the claims about volumes and
\* timers: the then/catch callbacks read and write none of audio, fadeIn,
\* fadeOut, activeTrack, timers or any volume.
NextFade ==
    \/ \E t \in Tracks : play(t)
    \/ \E t \in Tracks : stop(t)
    \/ fadeInTick
    \/ fadeOutTick
    \/ deferredPause
    \/ timeoutWaits

SpecFade == Init /\ [][NextFade]_vars

\* A registered timer is run by the host's event loop sooner or later;
\* nothing obliges the user to move the pointer or a promise to settle.
FairFade == SpecFade /\ WF_vars(TimerFire)

\* The whole component on a page where only row "a" has a preview_url.
InitSolo == Init /\ preview_url = [t \in Tracks |-> t = "a"]

SpecSolo == InitSolo /\ [][Next]_vars

FairSolo == SpecSolo /\ WF_vars(TimerFire)

\* The same page, handlers and timers alone.
SpecSoloFade == InitSolo /\ [][NextFade]_vars

FairSoloFade == SpecSoloFade /\ WF_vars(TimerFire)

\* Rapid hovering: the runs in which the pointer enters and leaves rows and
\* play() promises settle before any fade interval has ticked, so every
\* volume is still 0 and a stop's pause is due at once.  Each such run is a
\* run of Spec with more Audio objects.
NextRapid ==
    \/ \E t \in Tracks : playUpTo(t, MaxRequests)
    \/ \E t \in Tracks : stop(t)
    \/ deferredPause
    \/ \E s \in Sessions : playThen(s)
    \/ \E s \in Sessions, m \in Messages : playCatch(s, m)

SpecRapid == Init /\ [][NextRapid]_vars

\* ================================================================ claims
\* The callbacks of an Audio object, by the name they leave in last.
TimerOps == {"fadeIn", "fadeOut", "pause", "wait"}
SettleOps == {"then"} \cup {"catch:" \o m : m \in Messages}

\* stop has run for Audio object s: its row's audio cell no longer holds it.
Stopped(s) == s \in Sessions /\ ~Live(s)

\* Audio object s stands at volume 1.0.
AtFull(s) == s \in Sessions /\ sess[s].volume = Full

\* pause() has run on Audio object s.
Paused(s) == s \in Sessions /\ sess[s].paused

\* The timers registered for Audio object s, each with its waiting rounds.
TimersOf(s) == {timers[i] : i \in {j \in DOMAIN timers : timers[j].s = s}}

Registered(kind, s) == \E i \in DOMAIN timers : timers[i].kind = kind /\ timers[i].s = s

\* C1: after any sequence of start and stop events at most one row holds
\* a live session (an Audio object that was started and not yet stopped).
C1_AtMostOneLive == Cardinality({t \in Tracks : audio[t] # 0}) <= 1

\* C2: while a stopped session fades out its volume never rises, and at
\* the moment the deferred pause runs the volume has reached exactly 0.
C2_FadeOutReachesZero ==
    /\ [][\A s \in Sessions : ~Live(s) => sess'[s].volume <= sess[s].volume]_vars
    /\ [](last.op = "pause" => sess[last.s].volume = 0)

\* C3: a session that is started and not stopped starts at volume 0, gains
\* exactly one step on each fade-in tick until the ceiling, never passes the
\* ceiling, and with timers firing fairly reaches exactly 1.0.
C3_FadeInReachesFull ==
    /\ [][Len(sess') > Len(sess) => sess'[Len(sess')].volume = 0]_vars
    /\ [][\A s \in Sessions :
            Live(s) => /\ sess'[s].volume >= sess[s].volume
                       /\ sess'[s].volume <= Full
                       /\ (last'.op = "fadeIn" /\ last'.s = s /\ sess[s].volume < Full)
                             => sess'[s].volume = sess[s].volume + Step]_vars
    /\ \A s \in 1..MaxSessions :
            (s \in Sessions /\ Live(s)) ~> (Stopped(s) \/ AtFull(s))

\* A live session stands at 1.0 after its own fade-in tick.
C3_Witness ==
    /\ last.op = "fadeIn"
    /\ Live(last.s)
    /\ sess[last.s].volume = Full

\* C4: start(a), stop(a), start(b) before a's fade-out is over: a start
\* that takes effect makes its row the active track in the same step; a
\* stopped Audio object keeps its deferred pause pending until it is paused,
\* and the pause is due in the round in which its volume reaches 0; and no
\* timer callback of a stopped Audio object changes the marker, any row's
\* audio or fadeIn cell, or the volume, state or timers of a session on
\* another row.
C4_FadeOutLeavesOtherRow ==
    /\ [][\A t \in Tracks : (audio[t] = 0 /\ audio'[t] # 0) => activeTrack' = t]_vars
    /\ [](\A s \in Sessions :
            (Stopped(s) /\ ~sess[s].paused)
                => /\ Registered("pause", s)
                   /\ sess[s].volume = 0 => Timeout(s, 0) \in TimersOf(s))
    /\ [][\A s \in Sessions :
            (Stopped(s) /\ last'.op \in TimerOps /\ last'.s = s)
                => /\ activeTrack' = activeTrack
                   /\ audio' = audio
                   /\ fadeIn' = fadeIn
                   /\ \A u \in Sessions :
                        sess[u].track # sess[s].track
                            => sess'[u] = sess[u] /\ TimersOf(u)' = TimersOf(u)]_vars

\* Row b was started (volume 0, its interval registered last) while a
\* stopped Audio object of the other row is still fading out.
C4_Witness ==
    /\ last.op = "play"
    /\ audio[last.t] # 0
    /\ activeTrack = last.t
    /\ sess[audio[last.t]].volume = 0
    /\ timers[Len(timers)] = Interval("in", audio[last.t])
    /\ \E s \in Sessions :
        /\ Stopped(s)
        /\ sess[s].track # last.t
        /\ ~sess[s].paused
        /\ sess[s].volume > 0
        /\ Registered("out", s)

\* C5: a then/catch callback that runs after stop has run for its Audio
\* object changes nothing: it shows no toast, leaves
\* interactableNotified as it is and leaves the object's volume alone.
C5_StaleCallbackSilent ==
    [][(last'.op \in SettleOps /\ Stopped(last'.s))
          => /\ last'.toast = "none"
             /\ interactableNotified' = interactableNotified
             /\ sess'[last'.s].volume = sess[last'.s].volume]_vars

\* C6: when an interaction-required rejection was already delivered and no
\* play() has succeeded since, a further interaction-required rejection
\* shows no advisory toast.
C6_AdvisoryOnce ==
    [][(last'.op = "catch:interaction" /\ advised) => last'.toast # "advisory"]_vars

\* C7: once stop has run for an Audio object, the object is eventually
\* paused, with timers firing fairly: also when it was stopped at volume 0,
\* when its play() promise is still pending, and when its fade-out interval
\* was cleared before the volume reached 0.
C7_StopLeadsToPause == \A s \in 1..MaxSessions : Stopped(s) ~> Paused(s)

\* The deferred pause ran for an Audio object whose play() promise is still
\* pending and whose fade-out interval was cleared above volume 0.
C7_Witness ==
    /\ last.op = "pause"
    /\ Pending(last.s)
    /\ sess[last.s].volume > 0
    /\ ~Registered("out", last.s)

\* C8: stop for a row whose audio cell is empty changes nothing the
\* component owns: marker, cells, Audio objects, volumes and timers.
C8_StopIdempotent ==
    [][(last'.op = "stop" /\ audio[last'.t] = 0) => UNCHANGED prog]_vars

\* stop ran for a row all of whose Audio objects were already stopped and
\* paused, with timers still registered: a stop after the stop.
C8_Witness ==
    /\ last.op = "stop"
    /\ audio[last.t] = 0
    /\ \E s \in Sessions : sess[s].track = last.t
    /\ \A s \in Sessions : sess[s].track = last.t => sess[s].paused
    /\ timers # <<>>

\* C9: play for a row without preview_url changes nothing the component
\* owns: no Audio object, no timer, no play() request, same marker.
C9_NoPreviewNoSession ==
    [][(last'.op = "play" /\ ~preview_url[last'.t]) => UNCHANGED prog]_vars

\* play ran for a row without preview_url while another row is active.
C9_Witness ==
    /\ last.op = "play"
    /\ ~preview_url[last.t]
    /\ activeTrack \notin {"", last.t}

\* C10: play for a row whose audio cell holds an Audio object changes
\* nothing the component owns, and no row ever has two fade-in intervals
\* registered.
C10_SecondStartNoOp ==
    /\ [][(last'.op = "play" /\ audio[last'.t] # 0) => UNCHANGED prog]_vars
    /\ [](\A t \in Tracks :
            Cardinality({i \in DOMAIN timers :
                            timers[i].kind = "in" /\ sess[timers[i].s].track = t}) <= 1)

\* play ran for a row whose session had already faded in past volume 0.
C10_Witness ==
    /\ last.op = "play"
    /\ audio[last.t] # 0
    /\ sess[audio[last.t]].volume > 0

\* C11: a stop that finds an Audio object in its row's audio cell leaves
\* the marker empty in the state directly after it, in the step that
\* registers the fade-out: before any decrement of that object's volume and
\* before its pause.
C11_StopClearsMarker ==
    [][(last'.op = "stop" /\ audio[last'.t] # 0)
          => /\ activeTrack' = ""
             /\ \E i \in DOMAIN timers' : timers'[i] = Interval("out", audio[last'.t])
             /\ sess'[audio[last'.t]].volume = sess[audio[last'.t]].volume
             /\ ~sess'[audio[last'.t]].paused]_vars

\* stop ran for the row the marker named, with the object still audible.
C11_Witness ==
    /\ last.op = "stop"
    /\ activeTrack = ""
    /\ \E s \in Sessions :
        /\ Stopped(s)
        /\ sess[s].track = last.t
        /\ sess[s].volume > 0
        /\ ~sess[s].paused
        /\ Registered("out", s)

\* C12: when the play() promise of an Audio object is rejected with a
\* message that is neither the interaction-required one nor the
\* interrupted one, the object is abandoned in that step as stop would
\* abandon it: the marker is empty, the object's fade-in interval is no
\* longer registered and its row's audio cell no longer holds it.
C12_FailureAbandonsSession ==
    [][last'.op = "catch:other"
          => /\ activeTrack' = ""
             /\ \A i \in DOMAIN timers' : timers'[i] # Interval("in", last'.s)
             /\ audio'[last'.t] # last'.s]_vars

\* C13: the acknowledgement toast is shown only by a play() success that
\* finds interactableNotified set, and that success resets it, so between
\* two acknowledgements an advisory was shown: also when two play() calls
\* were both made while interactableNotified was set.
C13_AcknowledgedOnce ==
    [][last'.toast = "success"
          => /\ last'.op = "then"
             /\ interactableNotified
             /\ ~interactableNotified']_vars

\* C14: a rejection with the interrupted-by-pause message shows no toast
\* and leaves interactableNotified, the marker, every row's cells, the
\* timers and every Audio object's volume and paused state as they were.
C14_InterruptedSwallowed ==
    [][last'.op = "catch:interrupted"
          => /\ last'.toast = "none"
             /\ interactableNotified' = interactableNotified
             /\ activeTrack' = activeTrack
             /\ UNCHANGED <<audio, fadeIn, fadeOut, interactable, timers>>
             /\ sess' = [sess EXCEPT ![last'.s].promise = "settled"]]_vars

\* The promise of an Audio object stopped and paused at volume 0, right
\* after its start, was rejected as interrupted.
C14_Witness ==
    /\ last.op = "catch:interrupted"
    /\ sess[last.s].paused
    /\ sess[last.s].volume = 0
    /\ Stopped(last.s)

\* C15: every settlement of a play() promise shows at most one toast; a
\* rejection with a message that is neither the interaction-required nor
\* the interrupted one shows exactly the error toast; each promise is
\* handled once; and a settlement leaves alone everything the guards of
\* play and stop read, so it blocks no later call.
C15_OneToastPerSettlement ==
    [][last'.op \in SettleOps
          => /\ last'.toast \in {"none", "advisory", "success", "error"}
             /\ (last'.op = "catch:other") <=> (last'.toast = "error")
             /\ sess[last'.s].promise = "pending"
             /\ sess'[last'.s].promise = "settled"
             /\ UNCHANGED <<audio, preview_url, fadeIn, fadeOut, timers>>]_vars

\* An error toast was shown for a live Audio object, and a later rejection
\* of another Audio object was handled too.
C15_Witness ==
    /\ last.op = "catch:other"
    /\ last.toast = "error"
    /\ \E s \in Sessions : s # last.s /\ ~Pending(s)

\* C16: no row is dimmed and shows the progress bar at once, and a row
\* shows the progress bar only while the marker names it.
C16_RowVisualState ==
    \A t \in Tracks :
        /\ ~(dimmed(t) /\ progress(t))
        /\ progress(t) => activeTrack = t

\* C17: the fade-out interval of an Audio object whose volume is still
\* above 0 stays registered through every step of a handler or of a
\* callback of another Audio object.
C17_FadeOutNotCancelled ==
    [][\A s \in Sessions :
          (Registered("out", s) /\ sess[s].volume > 0 /\ last'.s # s)
              => \E i \in DOMAIN timers' : timers'[i] = Interval("out", s)]_vars

\* C18: play for a row that has a preview_url and an empty audio cell
\* takes effect in its own step, whatever the other rows' Audio objects are
\* doing: a new Audio object at volume 0 with its play() promise pending is
\* in the row's audio cell, the marker names the row, the object's fade-in
\* interval is registered, and no other Audio object or timer is touched;
\* nothing but the row's own cells decides whether the call can run.
C18_StartNotBlocked ==
    /\ [][\A t \in Tracks :
            (last'.op = "play" /\ last'.t = t /\ preview_url[t] /\ audio[t] = 0)
                => /\ Len(sess') = Len(sess) + 1
                   /\ audio'[t] = Len(sess')
                   /\ sess'[Len(sess')].track = t
                   /\ sess'[Len(sess')].volume = 0
                   /\ sess'[Len(sess')].promise = "pending"
                   /\ activeTrack' = t
                   /\ timers' = Append(timers, Interval("in", Len(sess')))
                   /\ \A u \in Sessions : sess'[u] = sess[u]]_vars
    /\ [](\A t \in Tracks :
            (preview_url[t] /\ audio[t] = 0 /\ Len(sess) < MaxSessions) => ENABLED play(t))

\* play took effect for a row while the other row's Audio object is live at
\* volume 1.0.
C18_Witness ==
    /\ last.op = "play"
    /\ audio[last.t] # 0
    /\ sess[audio[last.t]].volume = 0
    /\ Pending(audio[last.t])
    /\ \E s \in Sessions :
        /\ sess[s].track # last.t
        /\ Live(s)
        /\ AtFull(s)

\* C19: with timers firing fairly, a live Audio object that stands at
\* volume 1.0 is eventually stopped or left without a registered fade-in
\* interval: the interval clears itself at the ceiling.
C19_FadeInCancelsItself ==
    \A s \in 1..MaxSessions :
        (s \in Sessions /\ Live(s) /\ AtFull(s)) ~> (Stopped(s) \/ ~Registered("in", s))

\* C20: stop clears the Audio object's fade-in interval before it registers
\* the fade-out interval: no Audio object ever has a fade-in and a fade-out
\* interval registered together, none has two intervals of one direction,
\* and the volume of an Audio object never rises once stop has run for it.
C20_NoDoubleTimers ==
    /\ [](\A s \in Sessions :
            /\ ~(Registered("in", s) /\ Registered("out", s))
            /\ \A kind \in {"in", "out"} :
                  Cardinality({i \in DOMAIN timers : timers[i] = Interval(kind, s)}) <= 1)
    /\ [][\A s \in Sessions : Stopped(s) => sess'[s].volume <= sess[s].volume]_vars

\* An Audio object stopped in the middle of its fade-in has been
\* decremented by its fade-out interval, its fade-in interval gone.
C20_Witness ==
    /\ last.op = "fadeOut"
    /\ Stopped(last.s)
    /\ sess[last.s].volume > 0
    /\ sess[last.s].volume < Full - Step
    /\ Registered("out", last.s)
    /\ ~Registered("in", last.s)

\* C21: with timers firing fairly, the fade-out interval of a stopped
\* Audio object whose volume has reached 0 is eventually cleared, so that
\* the timer queue can empty once every row is stopped.
C21_FadeOutReleased ==
    \A s \in 1..MaxSessions :
        (Stopped(s) /\ sess[s].volume = 0) ~> ~Registered("out", s)

\* C22: a stop that takes effect for one row while the marker names
\* another row whose Audio object is live leaves the marker as it is.
C22_StopKeepsOtherMarker ==
    [][(/\ last'.op = "stop"
        /\ audio[last'.t] # 0
        /\ activeTrack \notin {"", last'.t}
        /\ audio[activeTrack] # 0)
          => activeTrack' = activeTrack]_vars

\* C23: whenever the marker is not empty, the row it names holds a live
\* Audio object in its audio cell: started, and stop not yet run for it.
C23_MarkerNamesLiveRow ==
    activeTrack # "" => (activeTrack \in Tracks /\ audio[activeTrack] # 0)

\* The marker names a row with a live Audio object while an Audio object
\* of that same row, stopped earlier, is still fading out.
C23_Witness ==
    /\ activeTrack # ""
    /\ audio[activeTrack] # 0
    /\ \E s \in Sessions :
        /\ sess[s].track = activeTrack
        /\ Stopped(s)
        /\ sess[s].volume > 0
        /\ ~sess[s].paused

\* C24: the volume of every Audio object is a whole number of 0.05 steps
\* from 0.0 to 1.0 inclusive, in every reachable state.
C24_VolumeInSteps ==
    \A s \in Sessions : sess[s].volume \in {k * Step : k \in 0..(Full \div Step)}

\* A fade-in tick ran at the ceiling for one Audio object while a stopped
\* one stands at 0 with its fade-out interval still firing.
C24_Witness ==
    /\ last.op = "fadeIn"
    /\ AtFull(last.s)
    /\ \E s \in Sessions :
        /\ Stopped(s)
        /\ sess[s].volume = 0
        /\ Registered("out", s)
====
